---- MODULE Spec2Model ----
(***************************************************************************)
(* Personal Finance Tracker (src/app.py): the flat-file transaction store  *)
(* and the aggregation queries of the four pages of FinanceTrackerApp.     *)
(*                                                                         *)
(* One action is one run of the Streamlit script: main() builds a new      *)
(* FinanceTrackerApp (whose __init__ calls load_data) and run() renders    *)
(* the page chosen in the sidebar.  Amounts are counted in hundredths      *)
(* (number_input step=0.01), dates are {year, month, day} records, and the *)
(* date strings of the file are sequences of one-character strings.        *)
(***************************************************************************)
EXTENDS Integers, Sequences, FiniteSets, TLC

VARIABLES
    file,           \* transactions.json: [exists, content], content the JSON text
    transactions,   \* self.transactions of the app object of the last run
    session_state,  \* st.session_state: [has_goals, budget_goals]
    view            \* what the last run rendered, and the widget values it read

vars == <<file, transactions, session_state, view>>

\* Largest number of records the store is let grow to.
MaxTx == 2

-----------------------------------------------------------------------------
(* Widgets' option lists and the values the runs draw their inputs from.   *)

\* st.selectbox("Category", [...])
Categories ==
    <<"Income", "Housing", "Food", "Transportation",
      "Utilities", "Entertainment", "Healthcare", "Other">>

CategorySet == {Categories[i] : i \in DOMAIN Categories}

\* The index order of a groupby('category') result: sorted by key.
SortedCategories ==
    <<"Entertainment", "Food", "Healthcare", "Housing",
      "Income", "Other", "Transportation", "Utilities">>

Dollars(n) == n * 100

Date(y, m, d) == [year |-> y, month |-> m, day |-> d]

\* The fillings of the add form the runs draw from: date_input, number_input
\* (min_value=0.0, so never negative), selectbox and text_input.
AddInputs ==
    { [date |-> Date(2024, 3, 1), amount |-> Dollars(1000),
       category |-> "Income", description |-> "Salary"],
      [date |-> Date(2024, 3, 5), amount |-> Dollars(200),
       category |-> "Food", description |-> "Groceries"],
      [date |-> Date(2024, 3, 1), amount |-> 4250,
       category |-> "Food", description |-> "Lunch"],
      [date |-> Date(2023, 12, 31), amount |-> 4250,
       category |-> "Food", description |-> "Groceries"],
      [date |-> Date(2023, 12, 31), amount |-> Dollars(200),
       category |-> "Housing", description |-> "Rent"],
      [date |-> Date(2024, 3, 5), amount |-> 0,
       category |-> "Food", description |-> "Groceries"],
      [date |-> Date(2024, 3, 1), amount |-> 4250,
       category |-> "Housing", description |-> ""],
      [date |-> Date(2023, 12, 31), amount |-> 0,
       category |-> "Income", description |-> ""] }

\* The ends of the date ranges picked on the history page.
RangeStartInputs == {Date(2023, 12, 31), Date(2024, 3, 1)}

RangeEndInputs == {Date(2024, 3, 1), Date(2024, 3, 5)}

\* datetime.now() at the time of a run of the budget page.
NowInputs == {Date(2023, 12, 31), Date(2024, 3, 5), Date(2024, 4, 30)}

\* The budget number inputs the user edits, and the values typed into them
\* (min_value=0.0).
EditedCategories == {"Food"}

BudgetInputs == {Dollars(40)}

-----------------------------------------------------------------------------
(* Dates: date.strftime("%Y-%m-%d"), pd.to_datetime, strftime("%Y-%m").    *)

DigitChars == <<"0", "1", "2", "3", "4", "5", "6", "7", "8", "9">>

Digit(n) == DigitChars[n + 1]

DigitValue(c) == CHOOSE d \in 0..9 : DigitChars[d + 1] = c

strftime(d) ==
    << Digit(d.year \div 1000), Digit((d.year \div 100) % 10),
       Digit((d.year \div 10) % 10), Digit(d.year % 10), "-",
       Digit(d.month \div 10), Digit(d.month % 10), "-",
       Digit(d.day \div 10), Digit(d.day % 10) >>

to_datetime(s) ==
    [ year  |-> 1000 * DigitValue(s[1]) + 100 * DigitValue(s[2])
                  + 10 * DigitValue(s[3]) + DigitValue(s[4]),
      month |-> 10 * DigitValue(s[6]) + DigitValue(s[7]),
      day   |-> 10 * DigitValue(s[9]) + DigitValue(s[10]) ]

\* Timestamp.strftime("%Y-%m")
strftime_month(d) == SubSeq(strftime(d), 1, 7)

\* Chronological order of two dates.
DateLeq(a, b) ==
    \/ a.year < b.year
    \/ a.year = b.year /\ a.month < b.month
    \/ a.year = b.year /\ a.month = b.month /\ a.day <= b.day

-----------------------------------------------------------------------------
(* The file: json.dump writes a list of objects, each a list of key/value  *)
(* pairs in the dict's key order; a float is written as its whole and      *)
(* fractional digits, a string as itself.                                  *)

\* Mutant: the amount written as a whole number, its fraction dropped.
JsonNumberWholeOnly(a) == [type |-> "number", whole |-> a \div 100, frac |-> 0]

JsonNumber(a) == [type |-> "number", whole |-> a \div 100, frac |-> a % 100]

JsonString(s) == [type |-> "string", text |-> s]

ParseNumber(v) == v.whole * 100 + v.frac

ParseString(v) == v.text

JsonObject(t) ==
    << <<"date", JsonString(t.date)>>,
       <<"amount", JsonNumber(t.amount)>>,
       <<"category", JsonString(t.category)>>,
       <<"description", JsonString(t.description)>> >>

\* The value an object holds under a key (the last pair wins, as in json.load).
Member(o, k) ==
    LET at == {i \in DOMAIN o : o[i][1] = k}
        last == CHOOSE i \in at : \A j \in at : j <= i
    IN  o[last][2]

ParseObject(o) ==
    [ date        |-> ParseString(Member(o, "date")),
      amount      |-> ParseNumber(Member(o, "amount")),
      category    |-> ParseString(Member(o, "category")),
      description |-> ParseString(Member(o, "description")) ]

json_dump(list) == [i \in DOMAIN list |-> JsonObject(list[i])]

json_load(text) == [i \in DOMAIN text |-> ParseObject(text[i])]

\* load_data: the list the file holds, or the empty list when there is no file.
load_data(f) == IF f.exists THEN json_load(f.content) ELSE <<>>

\* save_data: the whole list overwrites the file.
save_data(list) == [exists |-> TRUE, content |-> json_dump(list)]

-----------------------------------------------------------------------------
(* What a run renders.  Every field is a sequence, empty when the run did  *)
(* not emit it.                                                            *)

BlankView ==
    [ page        |-> "",
      restarted   |-> FALSE,  \* the first run of a new process
      clicked     |-> FALSE,
      form        |-> <<>>,   \* the widgets' values the add button read
      transaction |-> <<>>,   \* the dict the add button built
      message     |-> <<>>,   \* st.success / st.error / st.info
      filter      |-> <<>>,   \* <<selected_category, date_range>>
      table       |-> <<>>,   \* rows of the st.dataframe
      has_table   |-> FALSE,
      metrics     |-> <<>>,   \* Total Income, Total Expenses, Net Savings
      pie         |-> <<>>,   \* expenses_by_category
      line        |-> <<>>,   \* monthly_expenses
      has_charts  |-> FALSE,
      rows        |-> <<>>,   \* comparison_data
      has_rows    |-> FALSE,
      now         |-> <<>>,   \* datetime.now()
      updated     |-> <<>>,   \* updated_goals, when the button stored them
      exception   |-> FALSE ]

NoSession == [has_goals |-> FALSE, budget_goals |-> <<>>]

Init ==
    /\ file = [exists |-> FALSE, content |-> <<>>]
    /\ transactions = <<>>
    /\ session_state = NoSession
    /\ view = BlankView

-----------------------------------------------------------------------------
(* Page "Add Transaction".                                                 *)

\* Mutant: a zero amount passes (>= for >).
ValidInputAllowsZero(amount, description) == amount >= 0 /\ description # ""

\* Mutant: the description is not looked at.
ValidInputAmountOnly(amount, description) == amount > 0

\* if amount > 0 and description:
ValidInput(amount, description) == amount > 0 /\ description # ""

NewTransaction(date, amount, category, description) ==
    [ date        |-> strftime(date),
      amount      |-> amount,
      category    |-> category,
      description |-> description ]

\* Mutant: the new record goes to the front of the list.
PrependTransaction(list, t) == <<t>> \o list

\* self.transactions.append(transaction)
AppendTransaction(list, t) == Append(list, t)

AddPage(clicked, date, amount, category, description) ==
    LET loaded == load_data(file)
        t      == NewTransaction(date, amount, category, description)
        form   == [date |-> date, amount |-> amount,
                   category |-> category, description |-> description]
    IN  /\ clicked /\ ValidInput(amount, description) => Len(loaded) < MaxTx
        /\ UNCHANGED session_state
        /\ IF ~clicked
           THEN /\ transactions' = loaded
                /\ UNCHANGED file
                /\ view' = [BlankView EXCEPT !.page = "Add Transaction"]
           ELSE IF ValidInput(amount, description)
           THEN /\ transactions' = AppendTransaction(loaded, t)
                /\ file' = save_data(transactions')
                /\ view' = [BlankView EXCEPT
                               !.page = "Add Transaction",
                               !.clicked = TRUE,
                               !.form = <<form>>,
                               !.transaction = <<t>>,
                               !.message = <<"success">>]
           ELSE /\ transactions' = loaded
                /\ UNCHANGED file
                /\ view' = [BlankView EXCEPT
                               !.page = "Add Transaction",
                               !.clicked = TRUE,
                               !.form = <<form>>,
                               !.message = <<"error">>]

AddTransaction ==
    \E f \in AddInputs :
        AddPage(TRUE, f.date, f.amount, f.category, f.description)

\* A run of the page without a click on the button: nothing is read.
ShowAddTransaction ==
    AddPage(FALSE, Date(2024, 3, 1), 0, Categories[1], "")

-----------------------------------------------------------------------------
(* pandas: the frame of the transactions and its aggregations.             *)

\* pd.DataFrame(self.transactions) with df['date'] = pd.to_datetime(df['date'])
DataFrame(list) ==
    [ i \in DOMAIN list |->
        [ index       |-> i - 1,
          date        |-> to_datetime(list[i].date),
          amount      |-> list[i].amount,
          category    |-> list[i].category,
          description |-> list[i].description ] ]

RECURSIVE SumAmount(_)
\* Series.sum() of the 'amount' column: 0 for no rows.
SumAmount(rows) ==
    IF rows = <<>> THEN 0 ELSE Head(rows).amount + SumAmount(Tail(rows))

IncomeRows(df) == SelectSeq(df, LAMBDA r : r.category = "Income")

ExpenseRows(df) == SelectSeq(df, LAMBDA r : r.category # "Income")

total_income(df) == SumAmount(IncomeRows(df))

\* Mutant: the expenses sum every row, Income too.
total_expenses_all(df) == SumAmount(df)

total_expenses(df) == SumAmount(ExpenseRows(df))

net_savings(income, expenses) == income - expenses

\* rows.groupby('category')['amount'].sum(): one entry for each category that
\* occurs in the rows, in the order of the sorted keys.
GroupByCategorySum(rows) ==
    LET present == SelectSeq(SortedCategories,
                             LAMBDA c : \E i \in DOMAIN rows : rows[i].category = c)
    IN  [ k \in DOMAIN present |->
            [ category |-> present[k],
              amount   |-> SumAmount(SelectSeq(rows,
                               LAMBDA r : r.category = present[k])) ] ]

\* Mutant: the breakdown groups every row, Income too.
expenses_by_category_all(df) == GroupByCategorySum(df)

expenses_by_category(df) == GroupByCategorySum(ExpenseRows(df))

\* Series.get(category, 0)
SeriesGet(series, category, default) ==
    IF \E k \in DOMAIN series : series[k].category = category
    THEN series[CHOOSE k \in DOMAIN series : series[k].category = category].amount
    ELSE default

MonthIndex(d) == d.year * 12 + (d.month - 1)

IsLeapYear(y) == (y % 4 = 0 /\ y % 100 # 0) \/ y % 400 = 0

DaysInMonth(y, m) ==
    IF m = 2 THEN (IF IsLeapYear(y) THEN 29 ELSE 28)
    ELSE IF m \in {4, 6, 9, 11} THEN 30 ELSE 31

\* The label of a resample('M') bin: the last day of the month.
MonthEnd(k) ==
    [ year  |-> k \div 12,
      month |-> (k % 12) + 1,
      day   |-> DaysInMonth(k \div 12, (k % 12) + 1) ]

\* Mutant: the trend leaves Income out.
RowsOfMonthExpenses(df, k) ==
    SelectSeq(df, LAMBDA r : MonthIndex(r.date) = k /\ r.category # "Income")

RowsOfMonth(df, k) == SelectSeq(df, LAMBDA r : MonthIndex(r.date) = k)

\* df.set_index('date').resample('M')['amount'].sum() of a frame with rows:
\* one bin for every month from the first to the last, an empty bin summing to 0.
monthly_expenses(df) ==
    LET months == {MonthIndex(df[i].date) : i \in DOMAIN df}
        first  == CHOOSE k \in months : \A j \in months : k <= j
        last   == CHOOSE k \in months : \A j \in months : j <= k
    IN  [ n \in 1..(last - first + 1) |->
            [ month  |-> MonthEnd(first + n - 1),
              amount |-> SumAmount(RowsOfMonth(df, first + n - 1)) ] ]

-----------------------------------------------------------------------------
(* Page "Financial Insights".                                              *)

FinancialInsights ==
    LET loaded == load_data(file)
        df     == DataFrame(loaded)
        income == total_income(df)
        expenses == total_expenses(df)
    IN  /\ transactions' = loaded
        /\ UNCHANGED <<file, session_state>>
        /\ IF loaded = <<>>
           THEN view' = [BlankView EXCEPT
                            !.page = "Financial Insights",
                            !.message = <<"info">>]
           ELSE view' = [BlankView EXCEPT
                            !.page = "Financial Insights",
                            !.metrics = <<income, expenses,
                                          net_savings(income, expenses)>>,
                            !.pie = expenses_by_category(df),
                            !.line = monthly_expenses(df),
                            !.has_charts = TRUE]

-----------------------------------------------------------------------------
(* Page "Transaction History".                                             *)

\* df.sort_values('date', ascending=False): the default sort is not stable, so
\* rows of one date come out in any order.
sort_values_descending(df) ==
    { s \in { [i \in DOMAIN df |-> df[p[i]]] : p \in Permutations(DOMAIN df) } :
        \A i \in DOMAIN s : \A j \in DOMAIN s :
            i < j => DateLeq(s[j].date, s[i].date) }

\* ['All'] + list(df['category'].unique())
CategoryOptions(df) == {"All"} \cup {df[i].category : i \in DOMAIN df}

CategoryFilter(rows, selected_category) ==
    IF selected_category # "All"
    THEN SelectSeq(rows, LAMBDA r : r.category = selected_category)
    ELSE rows

\* Mutant: the end of the range is excluded (< for <=).
DateFilterExclusive(rows, date_range) ==
    SelectSeq(rows, LAMBDA r : /\ DateLeq(date_range[1], r.date)
                               /\ DateLeq(r.date, date_range[2])
                               /\ r.date # date_range[2])

\* (date >= date_range[0]) & (date <= date_range[1])
DateFilter(rows, date_range) ==
    SelectSeq(rows, LAMBDA r : /\ DateLeq(date_range[1], r.date)
                               /\ DateLeq(r.date, date_range[2]))

\* What st.date_input hands back for a range: both dates, or fewer while the
\* user is still picking.
DateRangeInputs ==
    { r \in RangeStartInputs \X RangeEndInputs : DateLeq(r[1], r[2]) }
    \cup { <<lo>> : lo \in RangeStartInputs } \cup { <<>> }

TransactionHistory ==
    LET loaded == load_data(file)
        df     == DataFrame(loaded)
    IN  /\ transactions' = loaded
        /\ UNCHANGED <<file, session_state>>
        /\ IF loaded = <<>>
           THEN view' = [BlankView EXCEPT
                            !.page = "Transaction History",
                            !.message = <<"info">>]
           ELSE \E sorted \in sort_values_descending(df),
                   selected_category \in CategoryOptions(df),
                   date_range \in DateRangeInputs :
                    IF Len(date_range) < 2
                    THEN \* date_range[0] or date_range[1] raises IndexError
                         view' = [BlankView EXCEPT
                                     !.page = "Transaction History",
                                     !.filter = <<selected_category, date_range>>,
                                     !.exception = TRUE]
                    ELSE view' = [BlankView EXCEPT
                                     !.page = "Transaction History",
                                     !.filter = <<selected_category, date_range>>,
                                     !.table = DateFilter(
                                         CategoryFilter(sorted, selected_category),
                                         date_range),
                                     !.has_table = TRUE]

-----------------------------------------------------------------------------
(* Page "Budget Goals".                                                    *)

\* The dict written to st.session_state.budget_goals on first access, in its
\* insertion order.
DefaultBudgetGoals ==
    << [category |-> "Housing", amount |-> Dollars(1000)],
       [category |-> "Food", amount |-> Dollars(500)],
       [category |-> "Transportation", amount |-> Dollars(200)],
       [category |-> "Utilities", amount |-> Dollars(300)],
       [category |-> "Entertainment", amount |-> Dollars(200)],
       [category |-> "Healthcare", amount |-> Dollars(300)],
       [category |-> "Other", amount |-> Dollars(200)] >>

\* if 'budget_goals' not in st.session_state: ...
InitBudgetGoals(session) ==
    IF session.has_goals
    THEN session
    ELSE [has_goals |-> TRUE, budget_goals |-> DefaultBudgetGoals]

\* updated_goals: one number input for each item of the goals, showing the
\* goal's amount unless the user typed another.
UpdatedGoalsInputs(goals) ==
    {goals} \cup
    { [i \in DOMAIN goals |->
         IF goals[i].category = c
         THEN [category |-> c, amount |-> v]
         ELSE goals[i]] : c \in EditedCategories, v \in BudgetInputs }

\* Mutant: the update is lost.
UpdateGoalsDropped(session, updated_goals) == session

\* st.session_state.budget_goals = updated_goals
UpdateGoals(session, updated_goals) ==
    [session EXCEPT !.budget_goals = updated_goals]

\* Mutant: the rows of every month are counted.
MonthlyRowsAll(df, current_month) == df

\* df[df['date'].dt.strftime("%Y-%m") == current_month]
MonthlyRows(df, current_month) ==
    SelectSeq(df, LAMBDA r : strftime_month(r.date) = current_month)

actual_spending(df, current_month) ==
    GroupByCategorySum(ExpenseRows(MonthlyRows(df, current_month)))

ComparisonRow(category, budget, actual) ==
    [ Category  |-> category,
      Budget    |-> budget,
      Actual    |-> actual,
      Remaining |-> budget - actual ]

comparison_data(goals, spending) ==
    [ i \in DOMAIN goals |->
        ComparisonRow(goals[i].category, goals[i].amount,
                      SeriesGet(spending, goals[i].category, 0)) ]

BudgetPage(clicked, updated_goals, now) ==
    LET loaded  == load_data(file)
        df      == DataFrame(loaded)
        first   == InitBudgetGoals(session_state)
        session == IF clicked THEN UpdateGoals(first, updated_goals) ELSE first
        current_month == strftime_month(now)
    IN  /\ updated_goals \in UpdatedGoalsInputs(first.budget_goals)
        /\ transactions' = loaded
        /\ UNCHANGED file
        /\ session_state' = session
        /\ IF loaded # <<>>
           THEN view' = [BlankView EXCEPT
                            !.page = "Budget Goals",
                            !.clicked = clicked,
                            !.message = IF clicked THEN <<"success">> ELSE <<>>,
                            !.updated = IF clicked THEN <<updated_goals>> ELSE <<>>,
                            !.now = <<now>>,
                            !.rows = comparison_data(session.budget_goals,
                                         actual_spending(df, current_month)),
                            !.has_rows = TRUE]
           ELSE view' = [BlankView EXCEPT
                            !.page = "Budget Goals",
                            !.clicked = clicked,
                            !.message = IF clicked THEN <<"success">> ELSE <<>>,
                            !.updated = IF clicked THEN <<updated_goals>> ELSE <<>>]

UpdateBudgetGoals ==
    \E now \in NowInputs :
        \E updated_goals \in UpdatedGoalsInputs(InitBudgetGoals(session_state).budget_goals) :
            BudgetPage(TRUE, updated_goals, now)

ShowBudgetGoals ==
    \E now \in NowInputs :
        BudgetPage(FALSE, InitBudgetGoals(session_state).budget_goals, now)

-----------------------------------------------------------------------------
\* The process ends and is started again: the session state is gone, and the
\* first run of the new session shows the first page of the menu.
Restart ==
    /\ transactions' = load_data(file)
    /\ UNCHANGED file
    /\ session_state' = NoSession
    /\ view' = [BlankView EXCEPT !.page = "Add Transaction", !.restarted = TRUE]

Next ==
    \/ TransactionHistory
    \/ FinancialInsights
    \/ UpdateBudgetGoals
    \/ ShowBudgetGoals
    \/ AddTransaction
    \/ ShowAddTransaction
    \/ Restart

Spec == Init /\ [][Next]_vars

-----------------------------------------------------------------------------
(* Properties.  Their sums and selections are stated over the list of      *)
(* transactions itself, by index, not through the frame operators above.   *)

IsPrefix(s, t) == Len(s) <= Len(t) /\ SubSeq(t, 1, Len(s)) = s

RECURSIVE SumAt(_, _)
\* The sum of the amounts of the records of a list at the indices of a set.
SumAt(list, indices) ==
    IF indices = {} THEN 0
    ELSE LET i == CHOOSE x \in indices : TRUE
         IN  list[i].amount + SumAt(list, indices \ {i})

IncomeAt(list) == {i \in DOMAIN list : list[i].category = "Income"}

ExpenseAt(list) == {i \in DOMAIN list : list[i].category # "Income"}

\* The calendar date a stored record carries.
DateOf(t) == to_datetime(t.date)

SameMonth(a, b) == a.year = b.year /\ a.month = b.month

Before(a, b) == DateLeq(a, b) /\ a # b

ValidAdd(v) ==
    /\ v.page = "Add Transaction" /\ v.clicked
    /\ v.form[1].amount > 0 /\ v.form[1].description # ""

InvalidAdd(v) ==
    /\ v.page = "Add Transaction" /\ v.clicked
    /\ (v.form[1].amount <= 0 \/ v.form[1].description = "")

\* C1: a valid add (amount > 0, non-empty description) succeeds, leaves the
\* in-memory sequence equal to the previous one with the new record appended
\* last, and the file then holds that sequence: loading it again, also in the
\* first run after a restart of the process, gives the same records in order.
C1_ValidAddAppendsAndPersists ==
    [][ /\ ValidAdd(view') =>
            /\ view'.message = <<"success">>
            /\ Len(transactions') = Len(transactions) + 1
            /\ SubSeq(transactions', 1, Len(transactions)) = transactions
            /\ LET last == transactions'[Len(transactions')]
                   f    == view'.form[1]
               IN  /\ DateOf(last) = f.date
                   /\ last.amount = f.amount
                   /\ last.category = f.category
                   /\ last.description = f.description
            /\ file'.exists
            /\ load_data(file') = transactions'
        /\ view'.restarted =>
            /\ transactions' = transactions
            /\ load_data(file') = transactions
      ]_vars

C1_Witness ==
    /\ ValidAdd(view) /\ view.message = <<"success">>
    /\ Len(transactions) = 2
    /\ transactions[2].amount = 4250
    /\ load_data(file) = transactions

\* C2: an invalid add (amount <= 0 or empty description) reports a validation
\* failure and changes neither the in-memory sequence nor the file, which stays
\* absent if it was absent.
C2_InvalidAddChangesNothing ==
    [][ InvalidAdd(view') =>
            /\ view'.message = <<"error">>
            /\ transactions' = transactions
            /\ file' = file
      ]_vars

C2_Witness ==
    /\ InvalidAdd(view) /\ view.message = <<"error">>
    /\ view.form[1].amount = 0 /\ view.form[1].description # ""
    /\ ~file.exists

ValidRecord(t) ==
    /\ t.amount > 0
    /\ t.description # ""
    /\ t.category \in CategorySet

\* C3: every record in memory and every record of the file has amount > 0, a
\* non-empty description and a category of the fixed set.
C3_RecordsValid ==
    /\ \A i \in DOMAIN transactions : ValidRecord(transactions[i])
    /\ file.exists =>
         \A i \in DOMAIN file.content : ValidRecord(ParseObject(file.content[i]))

C3_Witness ==
    /\ Len(transactions) = 2
    /\ file.exists /\ Len(file.content) = 2
    /\ view.restarted

ExpectedTotals(list) ==
    << SumAt(list, IncomeAt(list)),
       SumAt(list, ExpenseAt(list)),
       SumAt(list, IncomeAt(list)) - SumAt(list, ExpenseAt(list)) >>

\* C4 as stated: the insights view shows total income, total expenses and net
\* savings = income - expenses for any collection, all three zero for the
\* empty one.
C4_TotalsForAnyCollection ==
    view.page = "Financial Insights" =>
        /\ ~view.exception
        /\ view.metrics = ExpectedTotals(transactions)

\* C4, amended: for a collection with records the three totals are the sum of
\* the Income amounts, the sum of the other amounts and their difference; for
\* the empty collection no total is shown, only the notice that there are no
\* transactions, and no error is raised.
C4_TotalsWhenNotEmpty ==
    view.page = "Financial Insights" =>
        /\ ~view.exception
        /\ IF transactions = <<>>
           THEN view.metrics = <<>> /\ view.message = <<"info">>
           ELSE view.metrics = ExpectedTotals(transactions)

C4_Witness ==
    /\ view.page = "Financial Insights"
    /\ view.metrics = <<Dollars(1000), Dollars(200), Dollars(800)>>

\* C5: the category breakdown holds exactly the categories other than Income
\* that have a transaction, each once and with the sum of its amounts; Income
\* is never in it and no entry is zero.
C5_BreakdownExact ==
    (view.page = "Financial Insights" /\ transactions # <<>>) =>
        /\ view.has_charts
        /\ {view.pie[k].category : k \in DOMAIN view.pie}
             = {transactions[i].category : i \in ExpenseAt(transactions)}
        /\ \A k \in DOMAIN view.pie :
             /\ view.pie[k].category # "Income"
             /\ view.pie[k].amount > 0
             /\ view.pie[k].amount =
                  SumAt(transactions,
                        {i \in DOMAIN transactions :
                            transactions[i].category = view.pie[k].category})
             /\ \A j \in DOMAIN view.pie :
                  view.pie[j].category = view.pie[k].category => j = k

C5_Witness ==
    /\ view.page = "Financial Insights"
    /\ \E i \in DOMAIN transactions : transactions[i].category = "Income"
    /\ view.pie = <<[category |-> "Food", amount |-> Dollars(200)]>>

\* C6: the monthly trend of a collection with records is in strictly increasing
\* order of month, has a bucket for the month of every transaction, and each
\* bucket's total is the sum of the amounts, Income included, of the
\* transactions dated in that month of that year.
C6_MonthlyTrend ==
    (view.page = "Financial Insights" /\ transactions # <<>>) =>
        /\ view.has_charts
        /\ \A k \in DOMAIN view.line : \A j \in DOMAIN view.line :
             k < j => /\ Before(view.line[k].month, view.line[j].month)
                      /\ ~SameMonth(view.line[k].month, view.line[j].month)
        /\ \A k \in DOMAIN view.line :
             view.line[k].amount =
                SumAt(transactions,
                      {i \in DOMAIN transactions :
                          SameMonth(DateOf(transactions[i]), view.line[k].month)})
        /\ \A i \in DOMAIN transactions :
             \E k \in DOMAIN view.line :
                SameMonth(DateOf(transactions[i]), view.line[k].month)

C6_Witness ==
    /\ view.page = "Financial Insights"
    /\ \E i \in DOMAIN transactions : transactions[i].category = "Income"
    /\ view.line = <<[month |-> Date(2024, 3, 31), amount |-> Dollars(1200)]>>

\* The rows the claim expects of the budget page: one for each goal, with the
\* month's spending of the goal's category.
RowsMatchGoals(rows, goals, list, now) ==
    /\ Len(rows) = Len(goals)
    /\ \A i \in DOMAIN goals :
         LET actual ==
               SumAt(list, {k \in ExpenseAt(list) :
                               /\ list[k].category = goals[i].category
                               /\ SameMonth(DateOf(list[k]), now)})
         IN  /\ rows[i].Category = goals[i].category
             /\ rows[i].Budget = goals[i].amount
             /\ rows[i].Actual = actual
             /\ rows[i].Remaining = goals[i].amount - actual

\* C7 as stated: the budget page emits one row for each category of the goals,
\* for any collection, the actual being 0 where nothing was spent.
C7_RowForEveryGoal ==
    view.page = "Budget Goals" =>
        /\ ~view.exception
        /\ Len(view.rows) = Len(session_state.budget_goals)
        /\ view.now # <<>> =>
             RowsMatchGoals(view.rows, session_state.budget_goals,
                            transactions, view.now[1])

\* C7, amended: when the collection has records, the budget page emits exactly
\* one row (category, budget, actual, remaining) for each category of the
\* goals, actual being the sum of the amounts of that category's transactions
\* other than Income dated in the current month (0 when there are none) and
\* remaining = budget - actual, negative when overspent; when the collection
\* is empty it emits no comparison rows at all.
C7_RowForEveryGoalWhenNotEmpty ==
    view.page = "Budget Goals" =>
        /\ ~view.exception
        /\ IF transactions = <<>>
           THEN ~view.has_rows /\ view.rows = <<>>
           ELSE /\ view.has_rows
                /\ view.now # <<>>
                /\ RowsMatchGoals(view.rows, session_state.budget_goals,
                                  transactions, view.now[1])

C7_Witness ==
    /\ view.page = "Budget Goals" /\ view.has_rows
    /\ Len(transactions) = 2
    /\ \E i \in DOMAIN transactions : ~SameMonth(DateOf(transactions[i]), view.now[1])
    /\ \E k \in DOMAIN view.rows :
         /\ view.rows[k].Category = "Food"
         /\ view.rows[k].Actual > 0
         /\ view.rows[k].Remaining < 0
    /\ \E k \in DOMAIN view.rows : view.rows[k].Actual = 0

FilterMatches(t, selected_category, lo, hi) ==
    /\ selected_category = "All" \/ t.category = selected_category
    /\ DateLeq(lo, DateOf(t)) /\ DateLeq(DateOf(t), hi)

\* C8: for a collection with records, a category choice and a range [lo, hi],
\* the history table holds exactly the transactions of that category (any, when
\* none is chosen) dated from lo to hi inclusive, each once, in descending
\* order of date; a range that matches nothing gives an empty table, no error.
C8_HistoryFilter ==
    (/\ view.page = "Transaction History" /\ transactions # <<>>
     /\ Len(view.filter[2]) = 2) =>
        LET c  == view.filter[1]
            lo == view.filter[2][1]
            hi == view.filter[2][2]
            matching == {i \in DOMAIN transactions :
                            FilterMatches(transactions[i], c, lo, hi)}
        IN  /\ ~view.exception
            /\ view.has_table
            /\ {view.table[k].index + 1 : k \in DOMAIN view.table} = matching
            /\ Len(view.table) = Cardinality(matching)
            /\ \A k \in DOMAIN view.table :
                 LET t == transactions[view.table[k].index + 1]
                 IN  /\ view.table[k].date = DateOf(t)
                     /\ view.table[k].category = t.category
                     /\ view.table[k].description = t.description
                     /\ view.table[k].amount = t.amount
            /\ \A k \in DOMAIN view.table : \A j \in DOMAIN view.table :
                 k < j => DateLeq(view.table[j].date, view.table[k].date)

C8_Witness ==
    /\ view.page = "Transaction History" /\ view.has_table
    /\ Len(transactions) = 2
    /\ DateOf(transactions[1]) = Date(2024, 3, 1)
    /\ DateOf(transactions[2]) = Date(2024, 3, 5)
    /\ view.filter = <<"Food", <<Date(2024, 3, 1), Date(2024, 3, 5)>> >>
    /\ Len(view.table) = 2
    /\ view.table[1].index = 1

\* C9: the store only grows at its end: in every step the sequence in memory
\* and the sequence the file holds are prefixes of what they are afterwards.
C9_AppendOnly ==
    [][ /\ IsPrefix(transactions, transactions')
        /\ IsPrefix(load_data(file), load_data(file'))
      ]_vars

C9_Witness ==
    /\ view.restarted
    /\ Len(transactions) = 2
    /\ transactions[1] # transactions[2]

\* The defaults of the budget goals, as the claim lists them.
ClaimedDefaults ==
    [ Housing |-> Dollars(1000), Food |-> Dollars(500),
      Transportation |-> Dollars(200), Utilities |-> Dollars(300),
      Entertainment |-> Dollars(200), Healthcare |-> Dollars(300),
      Other |-> Dollars(200) ]

AreDefaults(goals) ==
    /\ Len(goals) = Cardinality(DOMAIN ClaimedDefaults)
    /\ {goals[i].category : i \in DOMAIN goals} = DOMAIN ClaimedDefaults
    /\ \A i \in DOMAIN goals : goals[i].amount = ClaimedDefaults[goals[i].category]

\* C10: the budget goals live in the session only.  The first run of the budget
\* page in a session sets them to the defaults; the update button replaces the
\* whole mapping by the values of the number inputs; neither touches the
\* transactions in memory or the file; no other page touches the goals; and a
\* restart leaves a session without goals (so the defaults again on the next
\* access) and the transactions that were persisted.
C10_BudgetGoalsSessionOnly ==
    [][ /\ view'.page = "Budget Goals" =>
            /\ transactions' = transactions
            /\ file' = file
            /\ session_state'.has_goals
            /\ view'.clicked =>
                 session_state'.budget_goals = view'.updated[1]
            /\ (~view'.clicked /\ session_state.has_goals) =>
                 session_state'.budget_goals = session_state.budget_goals
            /\ (~view'.clicked /\ ~session_state.has_goals) =>
                 AreDefaults(session_state'.budget_goals)
        /\ view'.restarted =>
            /\ ~session_state'.has_goals
            /\ transactions' = transactions
            /\ file' = file
        /\ (view'.page # "Budget Goals" /\ ~view'.restarted) =>
            session_state' = session_state
      ]_vars

C10_Witness ==
    /\ view.page = "Budget Goals" /\ view.clicked
    /\ transactions # <<>>
    /\ ~AreDefaults(session_state.budget_goals)
    /\ session_state.budget_goals = view.updated[1]

====
